---------------------------- MODULE Spec2Model ----------------------------
(***************************************************************************)
(* Model of the Gridiron Vision replay application (App component,         *)
(* src/unnamed/part_000, and analyzeVideoClip, src/services/               *)
(* geminiService.ts): the upload/analysis state machine, the playback      *)
(* clock driven by requestAnimationFrame, the media synchronisation, the   *)
(* scrubber and the keyframe interpolator.                                 *)
(*                                                                         *)
(* Numbers.  JavaScript numbers are modelled exactly:                      *)
(*  - currentTime, timeOffset and the media element's currentTime are      *)
(*    integers counting quarter seconds (1 = 0.25 s);                      *)
(*  - rAF timestamps are integers counting half seconds (1 = 500 ms), so   *)
(*    deltaTime = (timestamp - last) / 1000 is 2 quarter seconds per unit; *)
(*  - playbackSpeed holds the quarter seconds gained per timestamp unit:   *)
(*    0.5x = 1, 1x = 2, 2x = 4, so that deltaTime * playbackSpeed of the   *)
(*    source is (timestamp - last) * playbackSpeed here;                   *)
(*  - coordinates and the interpolation factor t are exact rationals       *)
(*    <<numerator, denominator>> in lowest terms, denominator > 0.         *)
(* Absent values (null in the source) are the empty sequence << >>, a      *)
(* present value v is << v >>.                                             *)
(*                                                                         *)
(* Scheduling.  A step of the model is one task of the browser.  State     *)
(* updates made in the handler of a click, change, play or pause event are *)
(* rendered and committed, effects included, before the handler's task     *)
(* ends.  Updates made in a requestAnimationFrame callback or after an     *)
(* await are queued by React and rendered by CommitUpdates; the effects of *)
(* such a render run in RunEffect.  Events may be handled in between, or   *)
(* none: the render may follow the dispatch at once.                       *)
(* React runs an updater function either when it is dispatched, if nothing *)
(* is pending on the component, keeping the value with the queued update,  *)
(* or when it renders the update; with nothing pending both are modelled.  *)
(***************************************************************************)
EXTENDS Integers, Sequences, FiniteSets, TLC

VARIABLES
    appState,          \* useState<AppState>, part_000:8
    analysisResult,    \* useState<AnalysisResult | null>, part_000:9
    videoFile,         \* useState<File | null>, part_000:10
    videoUrl,          \* useState<string | null>, part_000:11
    errorMsg,          \* useState<string>, part_000:12
    isPlaying,         \* useState(false), part_000:15
    currentTime,       \* useState(0), part_000:16
    playbackSpeed,     \* useState(1), part_000:17
    lastFrameTimeRef,  \* useRef<number>(0), part_000:21; 0 = unset
    timeQueue,         \* updates of currentTime dispatched and not yet rendered
    playQueue,         \* update of isPlaying dispatched and not yet rendered
    settled,           \* completions of handleAnalyze dispatched and not yet rendered
    effectDeps,        \* [isPlaying, analysisResult, playbackSpeed] the effect last ran with
    mediaTime,         \* videoRef.current.currentTime of the mounted <video>
    mediaPaused,       \* videoRef.current.paused of the mounted <video>
    now,               \* the clock the rAF timestamps are read from
    apiKey,            \* process.env.API_KEY is set (fixed per build)
    inflight,          \* pending analyzeVideoClip promises, by session tag
    session,           \* history: number of uploads accepted so far
    prevTickAt,        \* history: timestamp of the previous tick of this run
    crashed,           \* an uncaught TypeError has unmounted the component
    lastOp             \* history: the last operation and its input

vars == <<appState, analysisResult, videoFile, videoUrl, errorMsg, isPlaying,
          currentTime, playbackSpeed, lastFrameTimeRef, timeQueue, playQueue,
          settled, effectDeps,
          mediaTime, mediaPaused, now, apiKey, inflight, session, prevTickAt,
          crashed, lastOp>>

-----------------------------------------------------------------------------
(* Bounds of the model *)

\* largest timeOffset the inference collaborator returns (quarter seconds)
MaxOffset == 3
\* largest rAF timestamp (half seconds); timestamps start at 1
MaxNow == 2
\* how far the media element plays on its own (quarter seconds)
MaxMediaTime == 1
\* number of uploads the user makes
MaxSession == 2
\* largest timeOffset the collaborator returns in the application runs
MaxAnswerOffset == 2
\* longest keyframe sequence given to the interpolator in SpecInterp
MaxFrames == 4
\* calls of loop whose update React has not rendered yet
MaxQueued == 1

-----------------------------------------------------------------------------
(* Exact rational arithmetic for JavaScript's numbers *)

Abs(n) == IF n < 0 THEN -n ELSE n

RECURSIVE GCD(_, _)
GCD(a, b) == IF b = 0 THEN a ELSE GCD(b, a % b)

\* n / d in lowest terms with a positive denominator (d # 0)
Rat(n, d) ==
    LET g == GCD(Abs(n), Abs(d))
        s == IF d < 0 THEN -1 ELSE 1
    IN  <<(s * n) \div g, (s * d) \div g>>

RatInt(n) == <<n, 1>>
RatAdd(a, b) == Rat(a[1] * b[2] + b[1] * a[2], a[2] * b[2])
RatSub(a, b) == Rat(a[1] * b[2] - b[1] * a[2], a[2] * b[2])
RatMul(a, b) == Rat(a[1] * b[1], a[2] * b[2])

-----------------------------------------------------------------------------
(* Sample model: Position, Player, Keyframe, AnalysisResult *)

Position(x, y) == [x |-> RatInt(x), y |-> RatInt(y)]
Player(id, x, y) == [id |-> id, x |-> RatInt(x), y |-> RatInt(y)]
Keyframe(time, ball, red, blue) ==
    [timeOffset |-> time, ball |-> ball, teamRed |-> red, teamBlue |-> blue]
\* summary, formation and playType are display strings no operation reads
AnalysisResult(keyframes) == [keyframes |-> keyframes]


\* the positions of one sampled instant; k selects one of five snapshots that
\* between them move, drop, add, reorder and repeat player ids
Snapshot(k) ==
    CASE k = 1 -> [ball |-> Position(0, 0),
                   red  |-> <<Player("a", 0, 0), Player("b", 2, 4)>>,
                   blue |-> <<Player("c", 4, 4)>>]
      [] k = 2 -> [ball |-> Position(4, 2),
                   red  |-> <<Player("a", 6, 2), Player("b", 0, 0)>>,
                   blue |-> <<Player("c", 0, 2)>>]
      [] k = 3 -> [ball |-> Position(2, 6),
                   red  |-> <<Player("b", 4, 0)>>,
                   blue |-> <<Player("c", 2, 2), Player("d", 6, 6)>>]
      [] k = 4 -> [ball |-> Position(6, 0),
                   red  |-> << >>,
                   blue |-> <<Player("d", 0, 4), Player("d", 4, 0)>>]
      [] OTHER -> [ball |-> Position(0, 4),
                   red  |-> <<Player("b", 6, 6), Player("a", 2, 2), Player("a", 0, 6)>>,
                   blue |-> << >>]

KeyframeAt(time, k) ==
    Keyframe(time, Snapshot(k).ball, Snapshot(k).red, Snapshot(k).blue)

\* the keyframes the inference collaborator may return
Keyframes == {KeyframeAt(time, k) : time \in 0..MaxOffset, k \in 1..5}

IsSorted(frames) ==
    \A i \in 1..(Len(frames) - 1) : frames[i].timeOffset <= frames[i + 1].timeOffset

-----------------------------------------------------------------------------
(* Interpolator: getCurrentInterpolatedFrame, part_000:24-81 *)

\* a variant that adds the whole of end's share instead of the difference
LerpWithoutStart(start, end, t) == RatAdd(start, RatMul(end, t))

\* part_000:45
lerp(start, end, t) == RatAdd(start, RatMul(RatSub(end, start), t))

\* frames.findIndex(f => f.timeOffset > time), part_000:33, scanning from i;
\* indices are 1-based and 0 stands for the source's -1
RECURSIVE findIndex(_, _, _)
findIndex(frames, time, i) ==
    IF i > Len(frames) THEN 0
    ELSE IF frames[i].timeOffset > time THEN i
    ELSE findIndex(frames, time, i + 1)

\* team.find(p => p.id === id), part_000:56 and :66: << >> is undefined
RECURSIVE find(_, _, _)
find(team, id, i) ==
    IF i > Len(team) THEN << >>
    ELSE IF team[i].id = id THEN <<team[i]>>
    ELSE find(team, id, i + 1)

\* the callback of prevFrame.teamRed.map / prevFrame.teamBlue.map,
\* part_000:55-63 and :65-73
InterpolatePlayer(p1, nextTeam, t) ==
    LET p2 == find(nextTeam, p1.id, 1)
    IN  IF p2 = << >> THEN p1
        ELSE [id |-> p1.id,
              x  |-> lerp(p1.x, p2[1].x, t),
              y  |-> lerp(p1.y, p2[1].y, t)]

\* a variant that walks next's team instead of prev's
InterpolateTeamFromNext(prevTeam, nextTeam, t) ==
    [i \in 1..Len(nextTeam) |-> InterpolatePlayer(nextTeam[i], prevTeam, <<1, 1>>)]

\* prevFrame.team.map(...), part_000:55 and :65
InterpolateTeam(prevTeam, nextTeam, t) ==
    [i \in 1..Len(prevTeam) |-> InterpolatePlayer(prevTeam[i], nextTeam, t)]

\* a variant that measures elapsed from 0 instead of from prevFrame
FactorFromZero(time, prevFrame, nextFrame) ==
    LET duration == nextFrame.timeOffset - prevFrame.timeOffset
        elapsed  == time
    IN  IF duration = 0 THEN RatInt(0) ELSE Rat(elapsed, duration)

\* part_000:40-42: the interpolation factor t
InterpolationFactor(time, prevFrame, nextFrame) ==
    LET duration == nextFrame.timeOffset - prevFrame.timeOffset
        elapsed  == time - prevFrame.timeOffset
    IN  IF duration = 0 THEN RatInt(0) ELSE Rat(elapsed, duration)

\* part_000:36-80: the frame between frames[nextIndex - 1] and frames[nextIndex]
InterpolateBetween(time, prevFrame, nextFrame) ==
    LET t == InterpolationFactor(time, prevFrame, nextFrame)
    IN  [timeOffset |-> time,
         ball       |-> [x |-> lerp(prevFrame.ball.x, nextFrame.ball.x, t),
                         y |-> lerp(prevFrame.ball.y, nextFrame.ball.y, t)],
         teamRed    |-> InterpolateTeam(prevFrame.teamRed, nextFrame.teamRed, t),
         teamBlue   |-> InterpolateTeam(prevFrame.teamBlue, nextFrame.teamBlue, t)]

\* a variant without the clamps of part_000:30-31: it extends the first and
\* the last segment beyond the sampled range
GetFrameExtrapolating(time, result) ==
    IF result = << >> \/ Len(result[1].keyframes) = 0 THEN << >>
    ELSE LET frames == result[1].keyframes
             n      == Len(frames)
             found  == findIndex(frames, time, 1)
             nextIndex == IF n = 1 THEN 1
                          ELSE IF found = 0 THEN n
                          ELSE IF found = 1 THEN 2 ELSE found
         IN  IF n = 1 THEN <<frames[1]>>
             ELSE <<InterpolateBetween(time, frames[nextIndex - 1], frames[nextIndex])>>

\* part_000:24-81; result is the AnalysisResult | null of the caller
getCurrentInterpolatedFrame(time, result) ==
    IF result = << >> \/ Len(result[1].keyframes) = 0 THEN << >>
    ELSE LET frames == result[1].keyframes
             n      == Len(frames)
         IN  IF time <= frames[1].timeOffset THEN <<frames[1]>>
             ELSE IF time >= frames[n].timeOffset THEN <<frames[n]>>
             ELSE LET nextIndex == findIndex(frames, time, 1)
                  IN  IF nextIndex = 0 THEN <<frames[n]>>
                      ELSE <<InterpolateBetween(time, frames[nextIndex - 1],
                                                frames[nextIndex])>>

\* part_000:83
currentFrame ==
    IF analysisResult # << >> THEN getCurrentInterpolatedFrame(currentTime, analysisResult)
    ELSE << >>

-----------------------------------------------------------------------------
(* Inference collaborator: analyzeVideoClip, geminiService.ts:4-124 *)

\* one step of data.keyframes.sort((a, b) => a.timeOffset - b.timeOffset):
\* f goes behind every frame that does not compare greater (sort is stable)
RECURSIVE InsertByTime(_, _)
InsertByTime(sorted, f) ==
    IF Len(sorted) = 0 THEN <<f>>
    ELSE IF sorted[Len(sorted)].timeOffset - f.timeOffset <= 0 THEN Append(sorted, f)
    ELSE Append(InsertByTime(SubSeq(sorted, 1, Len(sorted) - 1), f), sorted[Len(sorted)])

\* a variant that returns the parsed keyframes as they came
KeepOrder(frames) == frames

\* geminiService.ts:116
RECURSIVE SortByTimeOffset(_)
SortByTimeOffset(frames) ==
    IF Len(frames) = 0 THEN << >>
    ELSE InsertByTime(SortByTimeOffset(SubSeq(frames, 1, Len(frames) - 1)),
                      frames[Len(frames)])

\* geminiService.ts:113-118: the value the promise resolves to for the parsed
\* response `raw` (a sequence of keyframes in the order the model gave them)
analyzeVideoClip(raw) == AnalysisResult(SortByTimeOffset(raw))

\* what the model may answer in the application runs: up to two keyframes in
\* any order, the snapshot fixed by the time
Responses ==
    LET K == {KeyframeAt(time, 1 + (time % 5)) : time \in 0..MaxAnswerOffset}
    IN  {<< >>} \cup {<<a>> : a \in K} \cup {<<a, b>> : a \in K, b \in K}

-----------------------------------------------------------------------------
(* What the component renders, part_000:166-349 *)

AppStates == {"IDLE", "UPLOADING", "ANALYZING", "PLAYBACK", "ERROR"}

\* 20 * 1024 * 1024 bytes, part_000:89, counted in MiB
MaxUploadMiB == 20

\* the playbackSpeed values of the rate buttons, part_000:317: 0.5x, 1x, 2x
Speeds == {1, 2, 4}

\* Math.abs(...) > 0.5, part_000:133, in quarter seconds
DriftTolerance == 2

\* a variant that also shows the file input during playback, for a new clip
FileInputVisibleInPlayback(state) == state \in {"IDLE", "PLAYBACK"}

\* a variant that also shows the file input while a call is in flight
FileInputVisibleWhileAnalyzing(state) == state \in {"IDLE", "ANALYZING"}

\* part_000:190-198: the file input is rendered in IDLE only
FileInputVisible(state) == state = "IDLE"

\* part_000:209: the <video> element is mounted, so videoRef.current is set
VideoMounted(state, url) ==
    state \in {"UPLOADING", "ANALYZING", "PLAYBACK", "ERROR"} /\ url # << >>

\* part_000:222-225: the Analyze button
AnalyzeButtonVisible(state, url) == VideoMounted(state, url) /\ state = "UPLOADING"

\* part_000:264: scrubber, play/pause and rate buttons
ControlsVisible(state, result) == state = "PLAYBACK" /\ result # << >>

\* part_000:296 and :303 read keyframes[keyframes.length - 1].timeOffset while
\* rendering the controls: a TypeError when there is no keyframe
RenderThrows(state, result) ==
    ControlsVisible(state, result) /\ Len(result[1].keyframes) = 0

\* a variant of the effect that leaves the reference time alone on stop
EffectKeepsLastFrameTime(playing, depsChanged, ref) == ref

\* part_000:147-156: the effect re-runs when isPlaying, analysisResult or
\* playbackSpeed changed; not playing, it clears lastFrameTimeRef
AnimationEffect(playing, depsChanged, ref) ==
    IF depsChanged /\ ~playing THEN 0 ELSE ref

\* a variant of the updater that holds the time at the end but never stops
UpdaterNeverStops(prev, deltaTime, speed, frames, mounted, mTime) ==
    IF Len(frames) = 0
    THEN [threw |-> TRUE, time |-> prev, playing |-> TRUE, media |-> mTime]
    ELSE LET maxTime  == frames[Len(frames)].timeOffset
             nextTime == prev + deltaTime * speed
             media    == IF mounted /\ Abs(mTime - nextTime) > DriftTolerance
                         THEN nextTime ELSE mTime
         IN  [threw |-> FALSE,
              time |-> IF nextTime >= maxTime THEN maxTime ELSE nextTime,
              playing |-> TRUE, media |-> media]

\* a variant of the updater that stops only once the time is past the end
UpdaterStopsPastEnd(prev, deltaTime, speed, frames, mounted, mTime) ==
    IF Len(frames) = 0
    THEN [threw |-> TRUE, time |-> prev, playing |-> TRUE, media |-> mTime]
    ELSE LET maxTime  == frames[Len(frames)].timeOffset
             nextTime == prev + deltaTime * speed
             media    == IF mounted /\ Abs(mTime - nextTime) > DriftTolerance
                         THEN nextTime ELSE mTime
         IN  [threw |-> FALSE,
              time |-> IF nextTime >= maxTime THEN maxTime ELSE nextTime,
              playing |-> ~(nextTime > maxTime), media |-> media]

\* a variant of the updater that stops at the end but keeps the time it computed
UpdaterWithoutClamp(prev, deltaTime, speed, frames, mounted, mTime) ==
    IF Len(frames) = 0
    THEN [threw |-> TRUE, time |-> prev, playing |-> TRUE, media |-> mTime]
    ELSE LET maxTime  == frames[Len(frames)].timeOffset
             nextTime == prev + deltaTime * speed
             media    == IF mounted /\ Abs(mTime - nextTime) > DriftTolerance
                         THEN nextTime ELSE mTime
         IN  [threw |-> FALSE, time |-> nextTime, playing |-> nextTime < maxTime,
              media |-> media]

\* the updater passed to setCurrentTime, part_000:128-142, with the closure's
\* keyframes, deltaTime and playbackSpeed: the value it returns (time), the
\* isPlaying it leaves (playing), the media time it leaves (media), and
\* whether reading the last keyframe raised a TypeError (threw)
Updater(prev, deltaTime, speed, frames, mounted, mTime) ==
    IF Len(frames) = 0
    THEN [threw |-> TRUE, time |-> prev, playing |-> TRUE, media |-> mTime]
    ELSE LET maxTime  == frames[Len(frames)].timeOffset
             nextTime == prev + deltaTime * speed
             media    == IF mounted /\ Abs(mTime - nextTime) > DriftTolerance
                         THEN nextTime ELSE mTime
         IN  IF nextTime >= maxTime
             THEN [threw |-> FALSE, time |-> maxTime, playing |-> FALSE, media |-> media]
             ELSE [threw |-> FALSE, time |-> nextTime, playing |-> TRUE, media |-> media]

\* An update of currentTime waiting in the queue of the hook: the updater of
\* loop with its closure's deltaTime and playbackSpeed (part_000:128), to be
\* run when React renders it
TickUpdate(deltaTime, speed) ==
    [kind |-> "tick", deltaTime |-> deltaTime, speed |-> speed, val |-> 0]
\* the same update when React ran the updater as loop dispatched it: val is
\* the value the updater returned, which the render takes as it is
EagerUpdate(deltaTime, speed, val) ==
    [kind |-> "ticked", deltaTime |-> deltaTime, speed |-> speed, val |-> val]
\* a value: setCurrentTime(val) of a scrub (part_000:160) or setCurrentTime(0)
\* of handleAnalyze (part_000:112)
SetUpdate(val) ==
    [kind |-> "set", deltaTime |-> 0, speed |-> 0, val |-> val]

\* An update of isPlaying waiting in the queue of the hook: setIsPlaying(false)
\* of the updater of loop (part_000:138), or the value of an event handled
\* since (part_000:217, :218, :310)
StopUpdate == [kind |-> "stop", val |-> FALSE]
PlayUpdate(val) == [kind |-> "playing", val |-> val]

\* The updates of handleAnalyze after its await, for the call tagged s:
\* setAnalysisResult(result), setAppState(PLAYBACK) (part_000:110-111), or
\* setErrorMsg(message), setAppState(ERROR) (part_000:115-116)
ResolvedUpdate(s, result) ==
    [kind |-> "resolved", tag |-> s, result |-> <<result>>, message |-> ""]
RejectedUpdate(s, message) ==
    [kind |-> "rejected", tag |-> s, result |-> << >>, message |-> message]

\* nothing is queued on currentTime
NoQueue == [base |-> 0, updates |-> << >>]

\* the queue after one more update: base is the state the first update of the
\* queue applies to; a value set right after another value replaces it, the
\* earlier one having no effect on any later render
Enqueue(queue, update, committed) ==
    LET n == Len(queue.updates)
    IN  IF n = 0
        THEN [base |-> committed, updates |-> <<update>>]
        ELSE IF update.kind = "set" /\ queue.updates[n].kind = "set"
        THEN [queue EXCEPT !.updates[n] = update]
        ELSE [queue EXCEPT !.updates = Append(@, update)]

\* the updates of loop in the queue
QueuedTicks(queue) ==
    Cardinality({i \in DOMAIN queue.updates :
                    queue.updates[i].kind \in {"tick", "ticked"}})

\* an update of the component is waiting for a render; React then queues
\* every further update, runs no updater at dispatch, and a value set by an
\* event handled meanwhile is applied again behind the waiting update
Pending == timeQueue.updates # << >> \/ playQueue # << >> \/ settled # << >>

\* the queue of isPlaying after an event has set the value: only the last
\* value of the queue decides what a render gives
PlayQueueAfter(val) == IF playQueue = << >> THEN << >> ELSE <<PlayUpdate(val)>>

\* React renders the queue of currentTime: the updates from the i-th on
\* applied in order to acc; an updater of loop not yet run is run here, with
\* its side effects on the media element (media), on isPlaying (stop) and a
\* TypeError (threw)
RECURSIVE ApplyUpdates(_, _, _, _, _)
ApplyUpdates(updates, i, acc, frames, mounted) ==
    IF i > Len(updates) THEN acc
    ELSE LET update == updates[i]
             u == Updater(acc.time, update.deltaTime, update.speed, frames,
                          mounted, acc.media)
         IN  IF update.kind \in {"set", "ticked"}
             THEN ApplyUpdates(updates, i + 1, [acc EXCEPT !.time = update.val],
                               frames, mounted)
             ELSE ApplyUpdates(updates, i + 1,
                               [time  |-> u.time,
                                stop  |-> acc.stop \/ ~u.playing,
                                media |-> u.media,
                                threw |-> acc.threw \/ u.threw],
                               frames, mounted)

\* React renders the completions of handleAnalyze from the i-th on
RECURSIVE ApplySettled(_, _, _)
ApplySettled(updates, i, acc) ==
    IF i > Len(updates) THEN acc
    ELSE LET update == updates[i]
         IN  IF update.kind = "resolved"
             THEN ApplySettled(updates, i + 1,
                               [acc EXCEPT !.analysisResult = update.result,
                                           !.appState = "PLAYBACK"])
             ELSE ApplySettled(updates, i + 1,
                               [acc EXCEPT !.errorMsg = update.message,
                                           !.appState = "ERROR"])

\* the dependencies of the effect, part_000:156
Deps(playing, result, speed) ==
    [isPlaying |-> playing, analysisResult |-> result, playbackSpeed |-> speed]

\* The render of everything queued, on the committed state: the time, whether
\* an updater run in this render called setIsPlaying(false), the media time,
\* a TypeError, isPlaying, and what the completions of handleAnalyze set.
\* setIsPlaying(false) called while rendering overrides the queue of isPlaying.
\* The keyframes an updater reads are those of the loop that dispatched it,
\* which are the held ones: no result replaces another.
Rendered ==
    LET start == [time  |-> IF timeQueue.updates = << >> THEN currentTime
                            ELSE timeQueue.base,
                  stop  |-> FALSE,
                  media |-> mediaTime,
                  threw |-> FALSE]
        clock == IF timeQueue.updates = << >> THEN start
                 ELSE ApplyUpdates(timeQueue.updates, 1, start,
                                   IF analysisResult = << >> THEN << >>
                                   ELSE analysisResult[1].keyframes,
                                   VideoMounted(appState, videoUrl))
        app   == ApplySettled(settled, 1,
                              [analysisResult |-> analysisResult,
                               appState |-> appState, errorMsg |-> errorMsg])
    IN  [time  |-> clock.time,
         stop  |-> clock.stop,
         media |-> clock.media,
         threw |-> clock.threw,
         playing |-> IF clock.stop THEN FALSE
                     ELSE IF playQueue # << >> THEN playQueue[1].val
                     ELSE isPlaying,
         analysisResult |-> app.analysisResult,
         appState |-> app.appState,
         errorMsg |-> app.errorMsg]

\* A render and its commit: the handler has fixed the primed component state;
\* mTime and mPaused are the values left in the media element; threw says a
\* state updater raised. Effects still due from an earlier commit run before
\* the render; the effect of this commit runs with it when sync (a click,
\* change, play or pause event), in a later task otherwise.
Commit(name, arg, mTime, mPaused, threw, sync) ==
    LET depsChanged == \/ isPlaying' # isPlaying
                       \/ analysisResult' # analysisResult
                       \/ playbackSpeed' # playbackSpeed
        due         == effectDeps # Deps(isPlaying, analysisResult, playbackSpeed)
        ref         == AnimationEffect(isPlaying, due, lastFrameTimeRef)
        mounted     == VideoMounted(appState', videoUrl')
        remounted   == mounted /\ (~VideoMounted(appState, videoUrl) \/ videoUrl' # videoUrl)
    IN  /\ crashed' = IF threw THEN "loop"
                      ELSE IF RenderThrows(appState', analysisResult') THEN "render"
                      ELSE "no"
        /\ lastFrameTimeRef' = IF sync THEN AnimationEffect(isPlaying', depsChanged, ref)
                               ELSE ref
        /\ effectDeps' = IF sync THEN Deps(isPlaying', analysisResult', playbackSpeed')
                         ELSE Deps(isPlaying, analysisResult, playbackSpeed)
        /\ mediaTime' = IF mounted /\ ~remounted THEN mTime ELSE 0
        /\ mediaPaused' = IF mounted /\ ~remounted THEN mPaused ELSE TRUE
        /\ prevTickAt' = IF ~isPlaying' THEN 0 ELSE prevTickAt
        /\ lastOp' = [name |-> name, arg |-> arg]

-----------------------------------------------------------------------------
(* Handlers of the App component *)

\* the state the component leaves alone in most handlers
upload == <<videoFile, videoUrl, session>>

\* handleFileUpload, part_000:85-99, for a chosen file of `size` MiB
HandleFileUpload(size) ==
    /\ crashed = "no"
    /\ FileInputVisible(appState)
    /\ session < MaxSession
    /\ IF size > MaxUploadMiB
       THEN /\ errorMsg' = "Video file is too large. Please upload a clip under 20MB."
            /\ appState' = "ERROR"
            /\ UNCHANGED upload
       ELSE /\ session' = session + 1
            /\ videoFile' = <<session + 1>>
            /\ videoUrl' = <<session + 1>>
            /\ appState' = "UPLOADING"
            /\ errorMsg' = ""
    /\ UNCHANGED <<analysisResult, isPlaying, currentTime, playbackSpeed, now, apiKey, inflight>>
    /\ Commit("upload", size, mediaTime, mediaPaused, FALSE, TRUE)
    /\ UNCHANGED <<timeQueue, playQueue, settled>>

\* handleAnalyze up to its await, part_000:101-109 (and :113-117 when the
\* key is missing): the call is tagged with the session that started it
HandleAnalyze ==
    /\ crashed = "no"
    /\ AnalyzeButtonVisible(appState, videoUrl)
    /\ videoFile # << >>
    /\ IF apiKey
       THEN /\ appState' = "ANALYZING"
            /\ inflight' = inflight \cup {session}
            /\ UNCHANGED errorMsg
       ELSE /\ appState' = "ERROR"
            /\ errorMsg' = "Missing API Key environment variable."
            /\ UNCHANGED inflight
    /\ UNCHANGED <<analysisResult, isPlaying, currentTime, playbackSpeed, now, apiKey, upload>>
    /\ Commit("analyze", 0, mediaTime, mediaPaused, FALSE, TRUE)
    /\ UNCHANGED <<timeQueue, playQueue, settled>>

\* handleAnalyze after its await, part_000:109-112, for the call tagged s:
\* the promise resolves with the parsed response `raw`, and the three state
\* updates are dispatched
AnalysisSucceeds(s, raw) ==
    /\ crashed = "no"
    /\ s \in inflight
    /\ inflight' = inflight \ {s}
    /\ settled' = Append(settled, ResolvedUpdate(s, analyzeVideoClip(raw)))
    /\ timeQueue' = Enqueue(timeQueue, SetUpdate(0), currentTime)
    /\ lastOp' = [name |-> "answer", arg |-> s]
    /\ UNCHANGED <<appState, analysisResult, errorMsg, isPlaying, currentTime,
                   playbackSpeed, lastFrameTimeRef, playQueue, effectDeps,
                   mediaTime, mediaPaused, now, apiKey, upload, prevTickAt,
                   crashed>>

\* err.message || "Failed to analyze video. ...", part_000:115
FailureMessage(message) ==
    IF message = ""
    THEN "Failed to analyze video. Gemini API might be busy or the video format is unsupported."
    ELSE message

\* the messages of the errors a call rejects with: none, a rejected request,
\* and a response without text (geminiService.ts:109-111); the errors of
\* JSON.parse and of the sort of a missing keyframes array carry their own
Rejections == {"", "503 overloaded", "No response from Gemini"}

\* handleAnalyze's catch, part_000:113-117: the promise of call s rejects
\* with an error that carries `message` (geminiService.ts:109-122), and the
\* two state updates are dispatched
AnalysisFails(s, message) ==
    /\ crashed = "no"
    /\ s \in inflight
    /\ inflight' = inflight \ {s}
    /\ settled' = Append(settled, RejectedUpdate(s, FailureMessage(message)))
    /\ lastOp' = [name |-> "failure", arg |-> s]
    /\ UNCHANGED <<appState, analysisResult, errorMsg, isPlaying, currentTime,
                   playbackSpeed, lastFrameTimeRef, timeQueue, playQueue,
                   effectDeps, mediaTime, mediaPaused, now, apiKey, upload,
                   prevTickAt, crashed>>

\* "Try another video", part_000:251-256
TryAnother ==
    /\ crashed = "no"
    /\ appState = "ERROR"
    /\ appState' = "IDLE"
    /\ UNCHANGED <<analysisResult, errorMsg, isPlaying, currentTime, playbackSpeed,
                   now, apiKey, inflight, upload>>
    /\ Commit("retry", 0, mediaTime, mediaPaused, FALSE, TRUE)
    /\ UNCHANGED <<timeQueue, playQueue, settled>>

\* a variant of the play/pause button that starts every play from time 0
TogglePlayRewinds ==
    /\ crashed = "no"
    /\ ControlsVisible(appState, analysisResult)
    /\ isPlaying' = ~isPlaying
    /\ currentTime' = IF isPlaying THEN currentTime ELSE 0
    /\ UNCHANGED <<appState, analysisResult, errorMsg, playbackSpeed,
                   now, apiKey, inflight, upload>>
    /\ Commit("toggle", 0, mediaTime, mediaPaused, FALSE, TRUE)
    /\ playQueue' = PlayQueueAfter(~isPlaying)
    /\ UNCHANGED <<timeQueue, settled>>

\* the play/pause button, part_000:309-314
TogglePlay ==
    /\ crashed = "no"
    /\ ControlsVisible(appState, analysisResult)
    /\ isPlaying' = ~isPlaying
    /\ UNCHANGED <<appState, analysisResult, errorMsg, currentTime, playbackSpeed,
                   now, apiKey, inflight, upload>>
    /\ Commit("toggle", 0, mediaTime, mediaPaused, FALSE, TRUE)
    /\ playQueue' = PlayQueueAfter(~isPlaying)
    /\ UNCHANGED <<timeQueue, settled>>

\* a rate button, part_000:317-325
SetPlaybackSpeed(speed) ==
    /\ crashed = "no"
    /\ ControlsVisible(appState, analysisResult)
    /\ playbackSpeed' = speed
    /\ UNCHANGED <<appState, analysisResult, errorMsg, isPlaying, currentTime,
                   now, apiKey, inflight, upload>>
    /\ Commit("speed", speed, mediaTime, mediaPaused, FALSE, TRUE)
    /\ UNCHANGED <<timeQueue, playQueue, settled>>

\* the <video>'s native play event, part_000:217
MediaPlay ==
    /\ crashed = "no"
    /\ VideoMounted(appState, videoUrl)
    /\ mediaPaused
    /\ isPlaying' = TRUE
    /\ UNCHANGED <<appState, analysisResult, errorMsg, currentTime, playbackSpeed,
                   now, apiKey, inflight, upload>>
    /\ Commit("onPlay", 0, mediaTime, FALSE, FALSE, TRUE)
    /\ playQueue' = PlayQueueAfter(TRUE)
    /\ UNCHANGED <<timeQueue, settled>>

\* the <video>'s native pause event, part_000:218
MediaPause ==
    /\ crashed = "no"
    /\ VideoMounted(appState, videoUrl)
    /\ ~mediaPaused
    /\ isPlaying' = FALSE
    /\ UNCHANGED <<appState, analysisResult, errorMsg, currentTime, playbackSpeed,
                   now, apiKey, inflight, upload>>
    /\ Commit("onPause", 0, mediaTime, TRUE, FALSE, TRUE)
    /\ playQueue' = PlayQueueAfter(FALSE)
    /\ UNCHANGED <<timeQueue, settled>>

\* the state no render or effect touches in a step without one
rendered == <<appState, analysisResult, errorMsg, isPlaying, currentTime,
              playbackSpeed, timeQueue, playQueue, settled, effectDeps, crashed,
              apiKey, inflight, upload>>

\* the media element plays a quarter second on its own
MediaAdvance ==
    /\ crashed = "no"
    /\ VideoMounted(appState, videoUrl)
    /\ ~mediaPaused
    /\ mediaTime < MaxMediaTime
    /\ mediaTime' = mediaTime + 1
    /\ lastOp' = [name |-> "media", arg |-> 0]
    /\ UNCHANGED <<rendered, lastFrameTimeRef, mediaPaused, now, prevTickAt>>

\* half a second passes
AdvanceClock ==
    /\ crashed = "no"
    /\ now < MaxNow
    /\ now' = now + 1
    /\ lastOp' = [name |-> "clock", arg |-> 0]
    /\ UNCHANGED <<rendered, lastFrameTimeRef, mediaTime, mediaPaused, prevTickAt>>

-----------------------------------------------------------------------------
(* Scrub controller and playback clock *)

\* keyframes[keyframes.length - 1].timeOffset, part_000:129 and :296
LastTimeOffset(result) == result[1].keyframes[Len(result[1].keyframes)].timeOffset

\* a variant of handleSeek that seeks the media only beyond the drift tolerance
HandleSeekWithTolerance(val, mounted, mTime) ==
    [time  |-> val,
     media |-> IF mounted /\ Abs(mTime - val) > DriftTolerance THEN val ELSE mTime]

\* handleSeek, part_000:159-164: the new currentTime and media time
handleSeek(val, mounted, mTime) ==
    [time  |-> val,
     media |-> IF mounted THEN val ELSE mTime]

\* the scrubber's onChange, part_000:293-300: a value of the range input,
\* which runs from 0 to the last keyframe's timeOffset
HandleSeek(val) ==
    /\ crashed = "no"
    /\ ControlsVisible(appState, analysisResult)
    /\ val \in 0..LastTimeOffset(analysisResult)
    /\ LET r == handleSeek(val, VideoMounted(appState, videoUrl), mediaTime)
       IN  /\ currentTime' = r.time
           /\ timeQueue' = IF timeQueue.updates = << >> THEN timeQueue
                           ELSE Enqueue(timeQueue, SetUpdate(r.time), currentTime)
           /\ UNCHANGED <<appState, analysisResult, errorMsg, isPlaying, playbackSpeed,
                          now, apiKey, inflight, upload, playQueue, settled>>
           /\ Commit("seek", val, r.media, mediaPaused, FALSE, TRUE)

\* loop, part_000:122-145, called by requestAnimationFrame with timestamp
\* `now`. The frame was requested by the effect that last ran, when it ran
\* with isPlaying (part_000:147-149), or by loop itself (part_000:144), and
\* loop sees the isPlaying, analysisResult and playbackSpeed of that effect.
\* setCurrentTime queues the updater; with nothing pending React may run it
\* at once (eager): the media element is then synchronised and
\* setIsPlaying(false) dispatched inside loop, and an update that leaves the
\* state as it is is dropped.
Tick ==
    /\ crashed = "no"
    /\ effectDeps.isPlaying
    /\ LET last      == IF lastFrameTimeRef = 0 THEN now ELSE lastFrameTimeRef
           deltaTime == now - last
           speed     == effectDeps.playbackSpeed
           queues    == effectDeps.isPlaying /\ effectDeps.analysisResult # << >>
       IN  /\ queues => QueuedTicks(timeQueue) < MaxQueued
           /\ lastFrameTimeRef' = now
           /\ prevTickAt' = IF isPlaying THEN now ELSE prevTickAt
           /\ lastOp' = [name |-> "tick", arg |-> now]
           /\ UNCHANGED <<appState, analysisResult, errorMsg, isPlaying, currentTime,
                          playbackSpeed, effectDeps, settled, apiKey, inflight,
                          upload, mediaPaused, now>>
           /\ \E eager \in IF queues /\ ~Pending THEN BOOLEAN ELSE {FALSE} :
                 IF eager
                 THEN LET u == Updater(currentTime, deltaTime, speed,
                                       effectDeps.analysisResult[1].keyframes,
                                       VideoMounted(appState, videoUrl), mediaTime)
                      IN  /\ mediaTime' = u.media
                          /\ crashed' = IF u.threw THEN "loop" ELSE crashed
                          /\ playQueue' = IF ~u.playing /\ isPlaying
                                          THEN <<StopUpdate>> ELSE playQueue
                          /\ timeQueue' = IF u.time # currentTime
                                          THEN Enqueue(timeQueue,
                                                       EagerUpdate(deltaTime, speed, u.time),
                                                       currentTime)
                                          ELSE timeQueue
                 ELSE /\ timeQueue' = IF queues
                                      THEN Enqueue(timeQueue,
                                                   TickUpdate(deltaTime, speed),
                                                   currentTime)
                                      ELSE timeQueue
                      /\ UNCHANGED <<playQueue, mediaTime, crashed>>

\* React renders and commits what is queued, the updates dispatched in one
\* task together: the updaters of loop not yet run run now (part_000:128-142),
\* in the order queued, from the state the first update was queued on; the
\* step is named after the completion of handleAnalyze it renders, if any
CommitUpdates ==
    /\ crashed = "no"
    /\ Pending
    /\ currentTime' = Rendered.time
    /\ isPlaying' = Rendered.playing
    /\ analysisResult' = Rendered.analysisResult
    /\ appState' = Rendered.appState
    /\ errorMsg' = Rendered.errorMsg
    /\ timeQueue' = NoQueue
    /\ playQueue' = << >>
    /\ settled' = << >>
    /\ UNCHANGED <<playbackSpeed, now, apiKey, inflight, upload>>
    /\ IF settled = << >>
       THEN Commit("commit", 0, Rendered.media, mediaPaused, Rendered.threw, FALSE)
       ELSE Commit(settled[Len(settled)].kind, settled[Len(settled)].tag,
                   Rendered.media, mediaPaused, Rendered.threw, FALSE)

\* the effect of part_000:121-156 runs for a commit made in an earlier task
RunEffect ==
    /\ crashed = "no"
    /\ effectDeps # Deps(isPlaying, analysisResult, playbackSpeed)
    /\ lastFrameTimeRef' = AnimationEffect(isPlaying, TRUE, lastFrameTimeRef)
    /\ effectDeps' = Deps(isPlaying, analysisResult, playbackSpeed)
    /\ lastOp' = [name |-> "effect", arg |-> 0]
    /\ UNCHANGED <<appState, analysisResult, errorMsg, isPlaying, currentTime,
                   playbackSpeed, timeQueue, playQueue, settled, crashed, apiKey,
                   inflight, upload, mediaTime, mediaPaused, now, prevTickAt>>

-----------------------------------------------------------------------------
(* The application *)

Init ==
    /\ appState = "IDLE"
    /\ analysisResult = << >>
    /\ videoFile = << >>
    /\ videoUrl = << >>
    /\ errorMsg = ""
    /\ isPlaying = FALSE
    /\ currentTime = 0
    /\ playbackSpeed = 2
    /\ lastFrameTimeRef = 0
    /\ timeQueue = NoQueue
    /\ playQueue = << >>
    /\ settled = << >>
    /\ effectDeps = Deps(FALSE, << >>, 2)
    /\ mediaTime = 0
    /\ mediaPaused = TRUE
    /\ now = 1
    /\ apiKey \in BOOLEAN
    /\ inflight = {}
    /\ session = 0
    /\ prevTickAt = 0
    /\ crashed = "no"
    /\ lastOp = [name |-> "init", arg |-> 0]

Next ==
    \/ \E size \in {MaxUploadMiB, MaxUploadMiB + 1} : HandleFileUpload(size)
    \/ HandleAnalyze
    \/ \E s \in inflight, raw \in Responses : AnalysisSucceeds(s, raw)
    \/ \E s \in inflight, message \in Rejections : AnalysisFails(s, message)
    \/ TryAnother
    \/ TogglePlay
    \/ \E speed \in Speeds : SetPlaybackSpeed(speed)
    \/ \E val \in 0..MaxAnswerOffset : HandleSeek(val)
    \/ MediaPlay
    \/ MediaPause
    \/ MediaAdvance
    \/ AdvanceClock
    \/ Tick
    \/ CommitUpdates
    \/ RunEffect

Spec == Init /\ [][Next]_vars

-----------------------------------------------------------------------------
(* The playback with time that never runs out, for what must eventually      *)
(* happen. The loop reads timestamps only through timestamp - lastFrameTimeRef*)
(* and the test of lastFrameTimeRef against 0 (part_000:123-125), so once     *)
(* `now` is at MaxNow a further half second is the same state with the stored *)
(* timestamps one lower. requestAnimationFrame calls loop on every frame      *)
(* while one is requested (part_000:144, :148-149), React renders what is     *)
(* queued and runs the effects that are due, and time passes: all weakly fair.*)

\* half a second passes with `now` at MaxNow: the time origin moves instead
AdvanceClockShifted ==
    /\ crashed = "no"
    /\ now = MaxNow
    /\ lastFrameTimeRef > 1
    /\ prevTickAt # 1
    /\ lastFrameTimeRef' = lastFrameTimeRef - 1
    /\ prevTickAt' = IF prevTickAt = 0 THEN 0 ELSE prevTickAt - 1
    /\ lastOp' = [name |-> "clock", arg |-> 0]
    /\ UNCHANGED <<rendered, now, mediaTime, mediaPaused>>

PassTime == AdvanceClock \/ AdvanceClockShifted

\* the results the playback runs over: what analyzeVideoClip makes of the
\* responses of one keyframe, one for every last timeOffset
LiveResults == {analyzeVideoClip(raw) : raw \in {r \in Responses : Len(r) = 1}}

\* the playback state as the render of a successful analysis leaves it: the
\* first upload analysed, the clock stopped, the effect of the render due
InitLive ==
    /\ appState = "PLAYBACK"
    /\ analysisResult \in {<<result>> : result \in LiveResults}
    /\ videoFile = <<1>>
    /\ videoUrl = <<1>>
    /\ errorMsg = ""
    /\ isPlaying = FALSE
    /\ currentTime = 0
    /\ playbackSpeed = 2
    /\ lastFrameTimeRef = 0
    /\ timeQueue = NoQueue
    /\ playQueue = << >>
    /\ settled = << >>
    /\ effectDeps = Deps(FALSE, << >>, 2)
    /\ mediaTime = 0
    /\ mediaPaused = TRUE
    /\ now = 1
    /\ apiKey = TRUE
    /\ inflight = {}
    /\ session = 1
    /\ prevTickAt = 0
    /\ crashed = "no"
    /\ lastOp = [name |-> "resolved", arg |-> 1]

\* the steps of the playback state: no upload, analysis or retry is offered
\* in it (part_000:190-198, :222-225, :251-256)
NextLive ==
    \/ TogglePlay
    \/ \E speed \in Speeds : SetPlaybackSpeed(speed)
    \/ \E val \in 0..MaxAnswerOffset : HandleSeek(val)
    \/ MediaPlay
    \/ MediaPause
    \/ MediaAdvance
    \/ AdvanceClock
    \/ AdvanceClockShifted
    \/ Tick
    \/ CommitUpdates
    \/ RunEffect

SpecLive ==
    /\ InitLive /\ [][NextLive]_vars
    /\ WF_vars(Tick) /\ WF_vars(PassTime)
    /\ WF_vars(CommitUpdates) /\ WF_vars(RunEffect)

-----------------------------------------------------------------------------
(* The interpolator on its own: every sorted keyframe sequence of up to      *)
(* MaxFrames keyframes, rendered at every time from before the first sample   *)
(* to after the last.                                                         *)

QueryTimes == (0 - 1)..(MaxOffset + 1)

SortedSequences ==
    UNION {{fs \in [1..n -> Keyframes] : IsSorted(fs)} : n \in 0..MaxFrames}

InitInterp ==
    /\ appState = "PLAYBACK"
    /\ analysisResult \in {<<AnalysisResult(fs)>> : fs \in SortedSequences}
    /\ videoFile = <<1>>
    /\ videoUrl = <<1>>
    /\ errorMsg = ""
    /\ isPlaying = FALSE
    /\ currentTime = 0
    /\ playbackSpeed = 2
    /\ lastFrameTimeRef = 0
    /\ timeQueue = NoQueue
    /\ playQueue = << >>
    /\ settled = << >>
    /\ effectDeps = Deps(FALSE, analysisResult, 2)
    /\ mediaTime = 0
    /\ mediaPaused = TRUE
    /\ now = 1
    /\ apiKey = TRUE
    /\ inflight = {}
    /\ session = 1
    /\ prevTickAt = 0
    /\ crashed = "no"
    /\ lastOp = [name |-> "render", arg |-> 0]

\* part_000:83 evaluated for another time
Render(time) ==
    /\ currentTime' = time
    /\ lastOp' = [name |-> "render", arg |-> time]
    /\ UNCHANGED <<appState, analysisResult, videoFile, videoUrl, errorMsg, isPlaying,
                   playbackSpeed, lastFrameTimeRef, timeQueue, playQueue, settled,
                   effectDeps, mediaTime, mediaPaused, now, apiKey, inflight,
                   session, prevTickAt, crashed>>

\* the time moves one step either way between two renders
NextInterp == \E time \in {currentTime - 1, currentTime + 1} \cap QueryTimes : Render(time)

SpecInterp == InitInterp /\ [][NextInterp]_vars

-----------------------------------------------------------------------------
(* Vocabulary of the properties *)

HasKeyframes == analysisResult # << >> /\ Len(analysisResult[1].keyframes) > 0
HasNoKeyframes == analysisResult # << >> /\ Len(analysisResult[1].keyframes) = 0
heldFrames == analysisResult[1].keyframes
FirstFrame == heldFrames[1]
LastFrame == heldFrames[Len(heldFrames)]

\* the step is the render that commits the queued updates of loop
CommitStep == lastOp'.name = "commit"

\* the loop that is called sees the clock running and an analysis result
LoopSeesResult == effectDeps.isPlaying /\ effectDeps.analysisResult # << >>

\* the step is a call of loop whose updater is left for the render to run
LazyTickStep ==
    /\ lastOp'.name = "tick"
    /\ LoopSeesResult
    /\ Len(timeQueue'.updates) = Len(timeQueue.updates) + 1
    /\ timeQueue'.updates[Len(timeQueue'.updates)].kind = "tick"

\* the step is a call of loop whose updater runs inside the call
EagerTickStep == lastOp'.name = "tick" /\ LoopSeesResult /\ ~LazyTickStep

\* the value the updater run inside the call returned: kept with the queued
\* update, or equal to current-time when React dropped the update
EagerValue ==
    IF timeQueue' = timeQueue THEN currentTime
    ELSE timeQueue'.updates[Len(timeQueue'.updates)].val

\* the elapsed time * rate the update queued by the call carries
LazyAdvance ==
    timeQueue'.updates[Len(timeQueue'.updates)].deltaTime
        * timeQueue'.updates[Len(timeQueue'.updates)].speed

\* real time between the previous tick of this run and the tick at `now`,
\* zero for the first tick of a run (timestamp units)
ElapsedSinceTick == IF prevTickAt = 0 THEN 0 ELSE now - prevTickAt

\* the update the oldest queued tick makes: prev, and prev + elapsed * rate
QueuedTick == timeQueue.updates[1]
QueuedPrev == timeQueue.base
QueuedAdvance == QueuedPrev + QueuedTick.deltaTime * QueuedTick.speed

\* the elapsed time * rate of the queued updates from the i-th on, added up
RECURSIVE QueuedSum(_)
QueuedSum(i) ==
    IF i > Len(timeQueue.updates) THEN 0
    ELSE timeQueue.updates[i].deltaTime * timeQueue.updates[i].speed
            + QueuedSum(i + 1)

\* prev of the oldest queued tick + elapsed * rate of every queued tick
QueuedTotal == timeQueue.base + QueuedSum(1)

\* an updater of loop is queued that has yet to run
LazyTickQueued ==
    \E i \in DOMAIN timeQueue.updates : timeQueue.updates[i].kind = "tick"

\* one tick whose updater has yet to run is queued and nothing else
LoneTick ==
    /\ Len(timeQueue.updates) = 1
    /\ QueuedTick.kind = "tick"
    /\ playQueue = << >>
    /\ settled = << >>

\* what is queued comes from calls of loop alone: no scrub, no play or pause
\* event and no completion of handleAnalyze has been handled since
OnlyTicksQueued ==
    /\ \A i \in DOMAIN timeQueue.updates :
          timeQueue.updates[i].kind \in {"tick", "ticked"}
    /\ playQueue \in {<< >>, <<StopUpdate>>}
    /\ settled = << >>

\* the ball and the teams of a frame
Positions(f) == <<f.ball, f.teamRed, f.teamBlue>>

-----------------------------------------------------------------------------
(* Properties *)

\* C1: a tick of the running clock over a non-empty keyframe sequence leaves
\* current-time at most the last keyframe's timeOffset; when prev + elapsed *
\* rate reaches or passes that bound, current-time becomes exactly the bound
\* and the clock is stopped with it: the updater run inside the call of loop
\* returns the bound and dispatches the stop in that call, and the render of
\* what the calls of loop queued commits the bound and that stop; an updater
\* left for the render to run makes current-time the bound and stops the
\* clock in that render.
C1_TickClampsAndStops ==
    [][ /\ (EagerTickStep /\ isPlaying /\ HasKeyframes) =>
               /\ EagerValue <= LastFrame.timeOffset
               /\ (currentTime + ElapsedSinceTick * playbackSpeed
                      >= LastFrame.timeOffset) =>
                     /\ EagerValue = LastFrame.timeOffset
                     /\ playQueue' = <<StopUpdate>>
        /\ (CommitStep /\ HasKeyframes /\ OnlyTicksQueued) =>
               /\ currentTime' <= LastFrame.timeOffset
               /\ (timeQueue.updates # << >>
                      /\ QueuedTotal >= LastFrame.timeOffset) =>
                     /\ currentTime' = LastFrame.timeOffset
                     /\ LazyTickQueued => ~isPlaying'
               /\ (playQueue = <<StopUpdate>>) => ~isPlaying'
      ]_vars

\* the clock has advanced to the last timeOffset and the render that
\* committed it stopped the clock
C1_Witness ==
    /\ lastOp.name = "commit"
    /\ HasKeyframes
    /\ LastFrame.timeOffset > 0
    /\ currentTime = LastFrame.timeOffset
    /\ ~isPlaying
    /\ now > 1

\* C2: with an empty keyframe sequence held and the clock running, no error
\* has been raised, and the update a tick makes of current-time raises none
\* (it reads no last timestamp) and returns current-time as it was.
C2_EmptyTickIsNoop ==
    (HasNoKeyframes /\ isPlaying) =>
        LET u == Updater(currentTime, 0, playbackSpeed, heldFrames,
                         VideoMounted(appState, videoUrl), mediaTime)
        IN  /\ crashed = "no"
            /\ ~u.threw
            /\ u.time = currentTime

\* C3: the frame the interpolator returns carries the query time as its
\* timeOffset, clamped cases included.
C3_FrameEchoesQueryTime ==
    currentFrame # << >> => currentFrame[1].timeOffset = currentTime

\* C4 as stated: at or before the first timeOffset the positions are the first
\* keyframe's, and at or after the last timeOffset they are the last keyframe's.
C4_ClampsBothEnds ==
    HasKeyframes =>
        /\ (currentTime <= FirstFrame.timeOffset) =>
               Positions(currentFrame[1]) = Positions(FirstFrame)
        /\ (currentTime >= LastFrame.timeOffset) =>
               Positions(currentFrame[1]) = Positions(LastFrame)

\* C4 amended: at or before the first timeOffset the positions are the first
\* keyframe's; after the first and at or after the last timeOffset they are
\* the last keyframe's.
C4_NoExtrapolation ==
    HasKeyframes =>
        /\ (currentTime <= FirstFrame.timeOffset) =>
               Positions(currentFrame[1]) = Positions(FirstFrame)
        /\ (currentTime > FirstFrame.timeOffset /\ currentTime >= LastFrame.timeOffset) =>
               Positions(currentFrame[1]) = Positions(LastFrame)

\* a query beyond the last sample of a sequence whose keyframes differ
C4_Witness ==
    /\ HasKeyframes
    /\ Len(heldFrames) >= 2
    /\ lastOp.name = "render"
    /\ currentTime > LastFrame.timeOffset
    /\ Positions(FirstFrame) # Positions(LastFrame)
    /\ Positions(currentFrame[1]) = Positions(LastFrame)

\* C5: when the update of a tick is applied the media element is sought if
\* and only if its time differs from the clock's new current-time by more
\* than the tolerance, and then to exactly that new current-time; so too when
\* the updater runs inside the call of loop, for the value it returns.
C5_SyncUsesNewCurrentTime ==
    [][ /\ (CommitStep /\ LoneTick /\ HasKeyframes) =>
               IF Abs(mediaTime - currentTime') > DriftTolerance
               THEN mediaTime' = currentTime'
               ELSE mediaTime' = mediaTime
        /\ (EagerTickStep /\ isPlaying /\ HasKeyframes) =>
               IF Abs(mediaTime - EagerValue) > DriftTolerance
               THEN mediaTime' = EagerValue
               ELSE mediaTime' = mediaTime
      ]_vars

\* C6: outside the playback state (error, idle, file selected, analyzing)
\* there is no analysis result and the interpolator yields no frame.
C6_ResultOnlyInPlayback ==
    appState \in {"ERROR", "IDLE", "UPLOADING", "ANALYZING"} =>
        (analysisResult = << >> /\ currentFrame = << >>)

\* a second upload is being analyzed after the first attempt ended in error
C6_Witness ==
    /\ appState = "ANALYZING"
    /\ session >= 2
    /\ analysisResult = << >>

\* C7: the completion of a call started in an earlier session changes neither
\* the analysis result nor the application state nor current-time, when it is
\* delivered and when its updates are rendered.
C7_StaleCompletionIgnored ==
    [][ /\ \A s \in inflight :
              (s \notin inflight' /\ s # session) =>
                  UNCHANGED <<analysisResult, appState, currentTime>>
        /\ (/\ lastOp'.name \in {"resolved", "rejected"}
            /\ \E i \in DOMAIN settled : settled[i].tag # session) =>
              UNCHANGED <<analysisResult, appState, currentTime>>
      ]_vars

\* the call of a second session has completed and was applied
C7_Witness ==
    /\ lastOp = [name |-> "resolved", arg |-> session]
    /\ session >= 2
    /\ appState = "PLAYBACK"
    /\ inflight = {}

\* C8: a scrub sets current-time and the media time to the requested time and
\* leaves the running flag and the rate unchanged.
C8_ScrubSetsBothTimes ==
    [][(lastOp'.name = "seek") =>
          /\ currentTime' = lastOp'.arg
          /\ mediaTime' = lastOp'.arg
          /\ isPlaying' = isPlaying
          /\ playbackSpeed' = playbackSpeed]_vars

\* a scrub while running, to a time other than the start
C8_Witness ==
    /\ lastOp.name = "seek"
    /\ lastOp.arg > 0
    /\ isPlaying
    /\ currentTime = lastOp.arg
    /\ mediaTime = lastOp.arg

\* C9: a tick of the running clock, made by a loop that sees the analysis
\* result, adds the real time since the previous tick of the run times the
\* rate, nothing on the first tick of a run: that is the advance of the update
\* it queues, the value below the end bound of the updater run inside the
\* call, and below the end bound the value the render of the queued ticks
\* commits.
C9_TickAddsElapsedTimesRate ==
    [][ /\ (LazyTickStep /\ isPlaying /\ HasKeyframes) =>
               /\ LazyAdvance = ElapsedSinceTick * playbackSpeed
               /\ (Len(timeQueue'.updates) = 1) => timeQueue'.base = currentTime
        /\ (EagerTickStep /\ isPlaying /\ HasKeyframes
               /\ currentTime + ElapsedSinceTick * playbackSpeed
                     < LastFrame.timeOffset) =>
               EagerValue = currentTime + ElapsedSinceTick * playbackSpeed
        /\ (CommitStep /\ HasKeyframes /\ OnlyTicksQueued
               /\ timeQueue.updates # << >>
               /\ QueuedTotal < LastFrame.timeOffset) =>
               currentTime' = QueuedTotal
      ]_vars

\* the running clock has advanced to a time below the end bound, on a tick
\* later than the first of its run
C9_Witness ==
    /\ lastOp.name = "commit"
    /\ HasKeyframes
    /\ isPlaying
    /\ prevTickAt > 1
    /\ 0 < currentTime
    /\ currentTime < LastFrame.timeOffset

\* the query time lies strictly between the first and the last timeOffset
Interior ==
    /\ HasKeyframes
    /\ FirstFrame.timeOffset < currentTime
    /\ currentTime < LastFrame.timeOffset

\* the bracket of the query time: the first keyframe later than it
BracketNext ==
    CHOOSE i \in 1..Len(heldFrames) :
        /\ heldFrames[i].timeOffset > currentTime
        /\ \A j \in 1..(i - 1) : heldFrames[j].timeOffset <= currentTime
BracketPrev == BracketNext - 1

Ids(team) == {team[i].id : i \in 1..Len(team)}

\* v = a + (b - a) * el / dur for rationals v, a, b and integers el, dur
IsLerp(v, a, b, el, dur) ==
    /\ v[2] > 0
    /\ v[1] * a[2] * b[2] * dur
          = v[2] * (a[1] * b[2] * dur + (b[1] * a[2] - a[1] * b[2]) * el)

\* out is prev's team, entity by entity: moved toward an entity of next with
\* the same id by el / dur, or left where it was when next has no such id
TeamFollowsPrev(out, prevTeam, nextTeam, el, dur) ==
    /\ DOMAIN out = 1..Len(prevTeam)
    /\ \A i \in 1..Len(prevTeam) :
          /\ out[i].id = prevTeam[i].id
          /\ IF prevTeam[i].id \in Ids(nextTeam)
             THEN \E j \in 1..Len(nextTeam) :
                     /\ nextTeam[j].id = prevTeam[i].id
                     /\ IsLerp(out[i].x, prevTeam[i].x, nextTeam[j].x, el, dur)
                     /\ IsLerp(out[i].y, prevTeam[i].y, nextTeam[j].y, el, dur)
             ELSE out[i] = prevTeam[i]
    /\ \A id \in Ids(nextTeam) \ Ids(prevTeam) : id \notin Ids(out)

\* C10: strictly inside the sampled range each output team is the bracket's
\* prev team, in order and with its ids: an entity whose id next has is moved
\* toward it by t, one whose id next lacks stays at its prev position, and an
\* id only next has is not in the output.
C10_TeamsFollowPrev ==
    Interior =>
        LET prevFrame == heldFrames[BracketPrev]
            nextFrame == heldFrames[BracketNext]
            el  == currentTime - prevFrame.timeOffset
            dur == nextFrame.timeOffset - prevFrame.timeOffset
            out == currentFrame[1]
        IN  /\ dur > 0
            /\ TeamFollowsPrev(out.teamRed, prevFrame.teamRed, nextFrame.teamRed, el, dur)
            /\ TeamFollowsPrev(out.teamBlue, prevFrame.teamBlue, nextFrame.teamBlue, el, dur)

\* a query inside a bracket whose prev has an id next lacks, whose next has an
\* id prev lacks, and in which a shared id has moved part of the way
C10_Witness ==
    /\ Interior
    /\ lastOp.name = "render"
    /\ LET prevFrame == heldFrames[BracketPrev]
           nextFrame == heldFrames[BracketNext]
       IN  /\ currentTime > prevFrame.timeOffset
           /\ Ids(prevFrame.teamRed) \ Ids(nextFrame.teamRed) # {}
           /\ Ids(nextFrame.teamBlue) \ Ids(prevFrame.teamBlue) # {}
           /\ Ids(nextFrame.teamBlue) \ Ids(currentFrame[1].teamBlue) # {}
           /\ \E i \in 1..Len(prevFrame.teamRed) :
                 /\ prevFrame.teamRed[i].id \in Ids(nextFrame.teamRed)
                 /\ currentFrame[1].teamRed[i] # prevFrame.teamRed[i]

\* the frames of the bracket and the parts of t = el / dur
PrevFrame == heldFrames[BracketPrev]
NextFrame == heldFrames[BracketNext]
BracketElapsed == currentTime - PrevFrame.timeOffset
BracketDuration == NextFrame.timeOffset - PrevFrame.timeOffset

\* the ball lies on the segment from prev's ball to next's ball at t
BallIsInterpolated ==
    /\ IsLerp(currentFrame[1].ball.x, PrevFrame.ball.x, NextFrame.ball.x,
              BracketElapsed, BracketDuration)
    /\ IsLerp(currentFrame[1].ball.y, PrevFrame.ball.y, NextFrame.ball.y,
              BracketElapsed, BracketDuration)

\* C11 as stated: strictly inside the sampled range the ball is prev.ball +
\* (next.ball - prev.ball) * t in x and in y, and at the timestamp of a
\* keyframe it is that keyframe's ball.
C11_BallAtEveryKeyframe ==
    Interior =>
        /\ BallIsInterpolated
        /\ \A k \in 1..Len(heldFrames) :
              (heldFrames[k].timeOffset = currentTime) =>
                  currentFrame[1].ball = heldFrames[k].ball

\* C11 amended: strictly inside the sampled range the ball is prev.ball +
\* (next.ball - prev.ball) * t in x and in y, and at the timestamp of a
\* keyframe it is the ball of the last keyframe that carries that timestamp.
C11_BallInterpolated ==
    Interior =>
        /\ BallIsInterpolated
        /\ \A k \in 1..Len(heldFrames) :
              (/\ heldFrames[k].timeOffset = currentTime
               /\ \A j \in (k + 1)..Len(heldFrames) :
                     heldFrames[j].timeOffset # currentTime) =>
                  currentFrame[1].ball = heldFrames[k].ball

\* a query part of the way through a bracket whose ball moves in x and in y
C11_Witness ==
    /\ Interior
    /\ lastOp.name = "render"
    /\ BracketElapsed > 0
    /\ BracketDuration >= 3
    /\ currentFrame[1].ball.x \notin {PrevFrame.ball.x, NextFrame.ball.x}
    /\ currentFrame[1].ball.y \notin {PrevFrame.ball.y, NextFrame.ball.y}
    /\ currentFrame[1].ball.x[2] > 1

\* the t that getCurrentInterpolatedFrame uses for the held frames and time
UsedFactor == InterpolationFactor(currentTime, PrevFrame, NextFrame)

\* positions i whose keyframe and the one after it carry the same timestamp
ZeroDurationBrackets ==
    {i \in 1..(Len(heldFrames) - 1) :
        heldFrames[i].timeOffset = heldFrames[i + 1].timeOffset}

\* C12: for sorted non-empty keyframes, duplicate timestamps included, and
\* every query time, the t used is a number (its denominator is not 0) with
\* 0 <= t <= 1, and a bracket of two equal timestamps gives t = 0.
C12_FactorInUnitInterval ==
    HasKeyframes =>
        /\ Interior =>
              /\ UsedFactor[2] > 0
              /\ 0 <= UsedFactor[1]
              /\ UsedFactor[1] <= UsedFactor[2]
        /\ \A i \in ZeroDurationBrackets :
              InterpolationFactor(currentTime, heldFrames[i], heldFrames[i + 1])
                  = RatInt(0)

\* a query strictly inside a bracket that follows a pair of equal timestamps
C12_Witness ==
    /\ Interior
    /\ lastOp.name = "render"
    /\ BracketPrev - 1 \in ZeroDurationBrackets
    /\ 0 < UsedFactor[1]
    /\ UsedFactor[1] < UsedFactor[2]

\* the events C13 names as leaving current-time alone: a failed analysis, a
\* play/pause (by the button or by the media element), a rate change, a retry
LeavesTimeAlone == {"rejected", "toggle", "onPlay", "onPause", "speed", "retry"}

\* C13: the step in which an analysis result becomes available is the
\* successful completion of handleAnalyze, and it leaves currentTime = 0 and
\* the playback state; a failed analysis, a play/pause, a rate change and a
\* retry leave currentTime unchanged; and the only other step that takes
\* currentTime back to 0 is the user scrubbing to 0.
C13_ResetOnlyOnNewResult ==
    [][ /\ (analysisResult' # analysisResult) => lastOp'.name = "resolved"
        /\ (lastOp'.name = "resolved") =>
               /\ analysisResult' # << >>
               /\ currentTime' = 0
               /\ appState' = "PLAYBACK"
        /\ (lastOp'.name \in LeavesTimeAlone) => currentTime' = currentTime
        /\ (currentTime # 0 /\ currentTime' = 0) =>
               lastOp' = [name |-> "seek", arg |-> 0]
      ]_vars

\* a result has just arrived, with the clock flag already set by the media
\* element, and the time is 0 in the playback state
C13_Witness ==
    /\ lastOp.name = "resolved"
    /\ HasKeyframes
    /\ appState = "PLAYBACK"
    /\ isPlaying
    /\ currentTime = 0

\* C14: in whatever order the collaborator returns the keyframes, a held
\* analysis result has them ascending by timeOffset from the step that stores
\* it, and no later step changes the held result.
C14_HeldKeyframesSorted ==
    [][ /\ (analysisResult' # << >>) => IsSorted(analysisResult'[1].keyframes)
        /\ (analysisResult # << >>) => analysisResult' = analysisResult
      ]_vars

\* a result of two keyframes with different timestamps is held, and the clock
\* has advanced over it since it arrived
C14_Witness ==
    /\ HasKeyframes
    /\ Len(heldFrames) = 2
    /\ FirstFrame.timeOffset < LastFrame.timeOffset
    /\ lastOp.name = "commit"
    /\ currentTime > 0

\* C15: in every reachable state that holds a non-empty analysis result,
\* 0 <= currentTime <= the last keyframe's timeOffset; and in every state
\* that holds no result currentTime = 0, the clock flag running or not.
C15_TimeWithinBounds ==
    /\ HasKeyframes =>
          /\ 0 <= currentTime
          /\ currentTime <= LastFrame.timeOffset
    /\ (analysisResult = << >>) => currentTime = 0

\* the user scrubbed to the far end while the clock was running, after the
\* loop had run
C15_Witness ==
    /\ HasKeyframes
    /\ lastOp.name = "seek"
    /\ isPlaying
    /\ prevTickAt > 0
    /\ LastFrame.timeOffset > 1
    /\ currentTime = LastFrame.timeOffset

\* the loop has run with the clock flag set and no result held
C15_IdleTickWitness ==
    /\ analysisResult = << >>
    /\ isPlaying
    /\ lastOp.name = "tick"
    /\ lastOp.arg > 1
    /\ lastFrameTimeRef > 1

\* the clock is running over a non-empty keyframe sequence, every update
\* dispatched so far rendered
Running == crashed = "no" /\ isPlaying /\ HasKeyframes /\ ~Pending

\* the clock has stopped at the last keyframe's timestamp
StoppedAtEnd == HasKeyframes /\ ~isPlaying /\ currentTime = LastFrame.timeOffset

\* the last event was a pause request, a media pause event or a scrub
Intervened ==
    \/ lastOp.name \in {"toggle", "onPause"} /\ ~isPlaying
    \/ lastOp.name = "seek"

=============================================================================
